---- MODULE Spec2Model ----
(***************************************************************************)
(* Verification development for the pairing-verifier repository.           *)
(*                                                                         *)
(* script/constants.py derives the verification key and one accepted call  *)
(* of the verifier from scalars, using py_ecc's bn128 curve.  The curve    *)
(* arithmetic below is py_ecc's (short Weierstrass, a = 0, affine          *)
(* coordinates, double-and-add), carried out on the member of the          *)
(* Barreto-Naehrig family with parameter u = -1:                            *)
(*     field modulus 19, group order 13, E: y^2 = x^3 + 3, G1 = (1, 2),    *)
(*     twist E': y^2 = x^3 + 3/(1+i) over F_19[i]/(i^2+1), #E' = 13 * 25.  *)
(* bn128 is the member with u = 4965661367192848881; equation, generator   *)
(* of G1 and the tower F_p[i]/(i^2+1) are the same.                         *)
(***************************************************************************)
EXTENDS Integers, Sequences, FiniteSets, TLC

\* ------------------------------------------------------------------------
\* Field arithmetic (py_ecc FQ / FQ2).  A field element is c0 + c1*i, kept
\* as [re |-> c0, im |-> c1]; elements of the base field have im = 0.
\* ------------------------------------------------------------------------
field_modulus == 19

curve_order == 13

FQ2(c0, c1) == [re |-> c0 % field_modulus, im |-> c1 % field_modulus]

FQ(n) == FQ2(n, 0)

fq_add(u, v) == FQ2(u.re + v.re, u.im + v.im)

fq_sub(u, v) == FQ2(u.re - v.re, u.im - v.im)

fq_neg(u) == FQ2(0 - u.re, 0 - u.im)

fq_mul(u, v) == FQ2(u.re * v.re - u.im * v.im, u.re * v.im + u.im * v.re)

\* prime_field_inv: the inverse modulo field_modulus, 0 for 0.
prime_field_inv(n) ==
    IF n % field_modulus = 0 THEN 0
    ELSE CHOOSE r \in 1..(field_modulus - 1) : (n * r) % field_modulus = 1

fq_inv(u) ==
    LET norm == prime_field_inv(u.re * u.re + u.im * u.im)
    IN  FQ2(u.re * norm, (0 - u.im) * norm)

fq_div(u, v) == fq_mul(u, fq_inv(v))

\* ------------------------------------------------------------------------
\* Curve points (py_ecc bn128_curve).  A point is <<x, y>>; the point at
\* infinity (None in py_ecc, (0, 0) on the wire) is Z.
\* ------------------------------------------------------------------------
Z == <<FQ(0), FQ(0)>>

curve_b == FQ(3)

curve_b2 == fq_div(FQ(3), FQ2(1, 1))

G1 == <<FQ(1), FQ(2)>>

G2 == <<FQ2(2, 5), FQ2(0, 6)>>

is_inf(pt) == pt = Z

is_on_curve(pt, coeff) ==
    \/ is_inf(pt)
    \/ fq_sub(fq_mul(pt[2], pt[2]), fq_mul(pt[1], fq_mul(pt[1], pt[1]))) = coeff

\* double with the slope 3x^2 / y, the factor 2 of the tangent left out.
double_wrong_slope(pt) ==
    IF is_inf(pt) THEN pt
    ELSE LET x == pt[1]
             y == pt[2]
             m == fq_div(fq_mul(FQ(3), fq_mul(x, x)), y)
             newx == fq_sub(fq_mul(m, m), fq_mul(FQ(2), x))
             newy == fq_sub(fq_add(fq_mul(fq_neg(m), newx), fq_mul(m, x)), y)
         IN  <<newx, newy>>

double(pt) ==
    IF is_inf(pt) THEN pt
    ELSE LET x == pt[1]
             y == pt[2]
             m == fq_div(fq_mul(FQ(3), fq_mul(x, x)), fq_mul(FQ(2), y))
             newx == fq_sub(fq_mul(m, m), fq_mul(FQ(2), x))
             newy == fq_sub(fq_add(fq_mul(fq_neg(m), newx), fq_mul(m, x)), y)
         IN  <<newx, newy>>

\* add that returns the point at infinity when either operand is it.
add_drops_identity(p1, p2) ==
    IF is_inf(p1) \/ is_inf(p2) THEN Z
    ELSE IF p1 = p2 THEN double(p1)
    ELSE IF p1[1] = p2[1] THEN Z
    ELSE LET m == fq_div(fq_sub(p2[2], p1[2]), fq_sub(p2[1], p1[1]))
             newx == fq_sub(fq_sub(fq_mul(m, m), p1[1]), p2[1])
             newy == fq_sub(fq_add(fq_mul(fq_neg(m), newx), fq_mul(m, p1[1])), p1[2])
         IN  <<newx, newy>>

add(p1, p2) ==
    IF is_inf(p1) \/ is_inf(p2) THEN (IF is_inf(p2) THEN p1 ELSE p2)
    ELSE IF p1 = p2 THEN double(p1)
    ELSE IF p1[1] = p2[1] THEN Z
    ELSE LET m == fq_div(fq_sub(p2[2], p1[2]), fq_sub(p2[1], p1[1]))
             newx == fq_sub(fq_sub(fq_mul(m, m), p1[1]), p2[1])
             newy == fq_sub(fq_add(fq_mul(fq_neg(m), newx), fq_mul(m, p1[1])), p1[2])
         IN  <<newx, newy>>

RECURSIVE multiply(_, _)
multiply(pt, n) ==
    IF n = 0 THEN Z
    ELSE IF n = 1 THEN pt
    ELSE IF n % 2 = 0 THEN multiply(double(pt), n \div 2)
    ELSE add(multiply(double(pt), n \div 2), pt)

\* neg that returns its argument.
neg_noop(pt) == pt

\* neg that negates the x coordinate.
neg_wrong_coordinate(pt) ==
    IF is_inf(pt) THEN pt
    ELSE <<fq_neg(pt[1]), pt[2]>>

neg(pt) ==
    IF is_inf(pt) THEN pt
    ELSE <<pt[1], fq_neg(pt[2])>>

\* ------------------------------------------------------------------------
\* script/constants.py: the scalars and the points derived from them.
\* ------------------------------------------------------------------------
_A1 == 1

_B2 == 1

_C1 == 1

_a1 == 1

_b2 == 1

_g2 == 1

_D2 == 1

_x1 == 2

_x2 == 3

_x3 == 4

A1 == multiply(G1, _A1)

B2 == multiply(G2, _B2)

C1 == multiply(G1, _C1)

a1 == multiply(G1, _a1)

b2 == multiply(G2, _b2)

g2 == multiply(G2, _g2)

D2 == neg(multiply(G2, _D2))

x1_G1 == multiply(G1, _x1)

x2_G1 == multiply(G1, _x2)

\* x3_G1 without the negation.
x3_G1_unnegated == multiply(G1, _x3)

x3_G1 == neg(multiply(G1, _x3))

\* The value printed as "x3 (as positive mod order)".
x3_printed == curve_order - 4

\* The scalars of the key, and the key built from them: a1, b2, g2, D2 for
\* any seeds.
FixtureSeeds == [a |-> _a1, b |-> _b2, g |-> _g2, d |-> _D2]

\* The key with delta2 not negated.
buildVerificationKey_unnegated(s) ==
    [alpha1 |-> multiply(G1, s.a),
     beta2  |-> multiply(G2, s.b),
     gamma2 |-> multiply(G2, s.g),
     delta2 |-> multiply(G2, s.d)]

buildVerificationKey(s) ==
    [alpha1 |-> multiply(G1, s.a),
     beta2  |-> multiply(G2, s.b),
     gamma2 |-> multiply(G2, s.g),
     delta2 |-> neg(multiply(G2, s.d))]

\* The function inputs the script prints: A1, B2, C1, x1, x2 and x3 = -4.
\* A negative public input stands for the scalar whose point is negated.
FixtureCall == [A1 |-> A1, B2 |-> B2, C1 |-> C1, publicInputs |-> <<_x1, _x2, 0 - _x3>>]

\* ------------------------------------------------------------------------
\* Key serialization: G1 as (x, y), G2 as ((x_im, x_re), (y_im, y_re)).
\* ------------------------------------------------------------------------
encodeG1(pt) == <<pt[1].re, pt[2].re>>

\* G2 coordinates written real part first.
encodeG2_real_first(pt) == <<pt[1].re, pt[1].im, pt[2].re, pt[2].im>>

encodeG2(pt) == <<pt[1].im, pt[1].re, pt[2].im, pt[2].re>>

encode(key) ==
    encodeG1(key.alpha1) \o encodeG2(key.beta2)
        \o encodeG2(key.gamma2) \o encodeG2(key.delta2)

decodeG1(s, at) == <<FQ(s[at]), FQ(s[at + 1])>>

decodeG2(s, at) == <<FQ2(s[at + 1], s[at]), FQ2(s[at + 3], s[at + 2])>>

decode(s) ==
    [alpha1 |-> decodeG1(s, 1),
     beta2  |-> decodeG2(s, 3),
     gamma2 |-> decodeG2(s, 7),
     delta2 |-> decodeG2(s, 11)]

\* ------------------------------------------------------------------------
\* The verifier: public-input folder, pairing equation evaluator, verify.
\* ------------------------------------------------------------------------
\* One public input's contribution: x*G1, and neg(|x|*G1) for a negative x.
\* A negative input's point without the negation.
input_point_unsigned(x) ==
    IF x < 0 THEN multiply(G1, 0 - x) ELSE multiply(G1, x)

input_point(x) ==
    IF x < 0 THEN neg(multiply(G1, 0 - x)) ELSE multiply(G1, x)

RECURSIVE fold(_)
fold(inputs) ==
    IF inputs = <<>> THEN Z
    ELSE add(fold(SubSeq(inputs, 1, Len(inputs) - 1)),
             input_point(inputs[Len(inputs)]))

\* The points of the two prime-order groups, by discrete logarithm.
G1Table == [n \in 0..(curve_order - 1) |-> multiply(G1, n)]

G2Table == [n \in 0..(curve_order - 1) |-> multiply(G2, n)]

log1(pt) == CHOOSE n \in 0..(curve_order - 1) : G1Table[n] = pt

log2(pt) == CHOOSE n \in 0..(curve_order - 1) : G2Table[n] = pt

\* An element of G_T is kept as its discrete logarithm to the base
\* e(G1, G2): the identity is 0 and the product adds exponents.
GT_one == 0

gt_mul(u, v) == (u + v) % curve_order

pairing(Q, P) == (log2(Q) * log1(P)) % curve_order

check(proof, X, key) ==
    gt_mul(gt_mul(gt_mul(pairing(proof.B2, neg(proof.A1)),
                         pairing(key.beta2, key.alpha1)),
                  pairing(key.gamma2, X)),
           pairing(key.delta2, proof.C1)) = GT_one

is_base_field(pt) == pt[1].im = 0 /\ pt[2].im = 0

is_reduced(x) == 0 - curve_order < x /\ x < curve_order

in_subgroup(pt) == multiply(pt, curve_order) = Z

ERRORS == {"MalformedPointError", "SubgroupMembershipError", "ScalarRangeError"}

RESULTS == {"true", "false"} \cup ERRORS

\* verify that answers false to arguments it cannot check.
verify_conflating(proof, key) ==
    IF \/ \E i \in 1..Len(proof.publicInputs) : ~is_reduced(proof.publicInputs[i])
       \/ ~(is_base_field(proof.A1) /\ is_on_curve(proof.A1, curve_b))
       \/ ~(is_base_field(proof.C1) /\ is_on_curve(proof.C1, curve_b))
       \/ ~is_on_curve(proof.B2, curve_b2)
       \/ ~in_subgroup(proof.B2)
        THEN "false"
    ELSE IF check(proof, fold(proof.publicInputs), key) THEN "true" ELSE "false"

verify(proof, key) ==
    IF \E i \in 1..Len(proof.publicInputs) : ~is_reduced(proof.publicInputs[i])
        THEN "ScalarRangeError"
    ELSE IF \/ ~(is_base_field(proof.A1) /\ is_on_curve(proof.A1, curve_b))
            \/ ~(is_base_field(proof.C1) /\ is_on_curve(proof.C1, curve_b))
            \/ ~is_on_curve(proof.B2, curve_b2)
        THEN "MalformedPointError"
    ELSE IF ~in_subgroup(proof.B2)
        THEN "SubgroupMembershipError"
    ELSE IF check(proof, fold(proof.publicInputs), key) THEN "true" ELSE "false"

\* ------------------------------------------------------------------------
\* Bounds of the model.
\* ------------------------------------------------------------------------
MaxSeed == 2

MaxProofScalar == 1

MaxInput == 1

MaxLen == 3

MaxFoldInput == 3

MaxPinScalar == 1

\* ------------------------------------------------------------------------
\* State.
\* ------------------------------------------------------------------------
VARIABLES
    seeds,       \* the scalars of the verification key
    vk,          \* the key the script derives from them
    hardcoded,   \* the coordinates it prints for hardcoding
    verifierVk,  \* the key of the deployed verifier
    stage,       \* "scalars", "built", "deployed", or "reference"
    call,        \* the call in flight: A1, B2, C1 and the public inputs
    X1,          \* the folded public inputs of the call
    outcome,     \* "idle", "pending", "folded", or a result of verify
    pinned       \* one earlier call with its result and the key it ran on

vars == <<seeds, vk, hardcoded, verifierVk, stage, call, X1, outcome, pinned>>

NoKey == [alpha1 |-> Z, beta2 |-> Z, gamma2 |-> Z, delta2 |-> Z]

NoCall == [A1 |-> Z, B2 |-> Z, C1 |-> Z, publicInputs |-> <<>>]

NoPin == [verifierVk |-> NoKey, call |-> NoCall, outcome |-> "idle"]

Seeds == [a : 1..MaxSeed, b : 1..MaxSeed, g : 1..MaxSeed, d : 1..MaxSeed]

Init ==
    /\ seeds \in Seeds
    /\ vk = NoKey
    /\ hardcoded = <<>>
    /\ verifierVk = NoKey
    /\ stage = "scalars"
    /\ call = NoCall
    /\ X1 = Z
    /\ outcome = "idle"
    /\ pinned = NoPin

\* constants.py: derive the key and print its coordinates.
BuildVerificationKey ==
    /\ stage = "scalars"
    /\ vk' = buildVerificationKey(seeds)
    /\ hardcoded' = encode(vk')
    /\ stage' = "built"
    /\ UNCHANGED <<seeds, verifierVk, call, X1, outcome, pinned>>

\* deploy.py: deploy the verifier, its key the hardcoded coordinates.
deploy ==
    /\ stage = "built"
    /\ verifierVk' = decode(hardcoded)
    /\ stage' = "deployed"
    /\ UNCHANGED <<seeds, vk, hardcoded, call, X1, outcome, pinned>>

Send(c) ==
    /\ stage = "deployed"
    /\ outcome = "idle"
    /\ call' = c
    /\ outcome' = "pending"
    /\ UNCHANGED <<seeds, vk, hardcoded, verifierVk, stage, X1, pinned>>

\* A caller sends the function inputs the script printed.
SubmitFixture == Send(FixtureCall)

\* A caller builds a proof from scalars as the script does, and sends it.
Submit ==
    \E sA, sB, sC \in 0..MaxProofScalar :
        \E x1, x2 \in 0..MaxInput, x3 \in (0 - MaxInput)..0 :
            Send([A1 |-> multiply(G1, sA), B2 |-> multiply(G2, sB),
                  C1 |-> multiply(G1, sC), publicInputs |-> <<x1, x2, x3>>])

\* Points that are no elements of the groups, and scalars out of range.
BadG1 == {<<FQ(1), FQ(3)>>, <<FQ2(1, 1), FQ(2)>>}

BadG2 == {<<FQ2(5, 2), FQ2(6, 0)>>, <<FQ2(0, 2), FQ2(7, 0)>>}

BadScalars == {curve_order, curve_order + 1, 0 - curve_order}

\* A caller sends the fixture with one argument replaced by a bad one.
SubmitMalformed ==
    \/ \E pt \in BadG1 : Send([FixtureCall EXCEPT !.A1 = pt])
    \/ \E pt \in BadG2 : Send([FixtureCall EXCEPT !.B2 = pt])
    \/ \E pt \in BadG1 : Send([FixtureCall EXCEPT !.C1 = pt])
    \/ \E i \in 1..3, s \in BadScalars : Send([FixtureCall EXCEPT !.publicInputs[i] = s])

\* Verify that negates delta2 of the verifier's key on every call.
Verify_stateful ==
    /\ stage = "deployed"
    /\ outcome = "pending"
    /\ outcome' = verify(call, verifierVk)
    /\ X1' = IF outcome' \in {"true", "false"} THEN fold(call.publicInputs) ELSE Z
    /\ verifierVk' = [verifierVk EXCEPT !.delta2 = neg(verifierVk.delta2)]
    /\ UNCHANGED <<seeds, vk, hardcoded, stage, call, pinned>>

\* The verifier runs the call.
Verify ==
    /\ stage = "deployed"
    /\ outcome = "pending"
    /\ outcome' = verify(call, verifierVk)
    /\ X1' = IF outcome' \in {"true", "false"} THEN fold(call.publicInputs) ELSE Z
    /\ UNCHANGED <<seeds, vk, hardcoded, verifierVk, stage, call, pinned>>

\* The call returns; nothing of it is retained.
Return ==
    /\ stage = "deployed"
    /\ outcome \in RESULTS
    /\ call' = NoCall
    /\ X1' = Z
    /\ outcome' = "idle"
    /\ UNCHANGED <<seeds, vk, hardcoded, verifierVk, stage, pinned>>

Next ==
    \/ BuildVerificationKey
    \/ deploy
    \/ SubmitFixture
    \/ Submit
    \/ SubmitMalformed
    \/ Verify
    \/ Return

Spec == Init /\ [][Next]_vars

\* ------------------------------------------------------------------------
\* The reference computation of the script: the points of the public
\* inputs and their sum, for input sequences of any length.  The last
\* input ranges over every reduced scalar and every negated one.
\* ------------------------------------------------------------------------
FoldInputs ==
    {<<>>} \cup
    {p \o <<s>> :
        p \in UNION {[1..n -> 0..MaxFoldInput] : n \in 0..(MaxLen - 1)},
        s \in (1 - curve_order)..(curve_order - 1)}

InitFold ==
    /\ seeds = FixtureSeeds
    /\ vk = NoKey
    /\ hardcoded = <<>>
    /\ verifierVk = NoKey
    /\ stage = "reference"
    /\ call \in {[NoCall EXCEPT !.publicInputs = xs] : xs \in FoldInputs}
    /\ X1 = Z
    /\ outcome = "pending"
    /\ pinned = NoPin

Fold ==
    /\ stage = "reference"
    /\ outcome = "pending"
    /\ X1' = fold(call.publicInputs)
    /\ outcome' = "folded"
    /\ UNCHANGED <<seeds, vk, hardcoded, verifierVk, stage, call, pinned>>

NextFold == Fold

SpecFold == InitFold /\ [][NextFold]_vars

\* ------------------------------------------------------------------------
\* Repeated calls: one returned call is kept with its result and the key
\* it ran on, and every later call is compared with it.
\* ------------------------------------------------------------------------
InitPin == Init /\ seeds = FixtureSeeds

SubmitPin ==
    \E sA, sB, sC \in 0..MaxPinScalar :
        Send([A1 |-> multiply(G1, sA), B2 |-> multiply(G2, sB),
              C1 |-> multiply(G1, sC), publicInputs |-> FixtureCall.publicInputs])

ReturnPinned ==
    /\ stage = "deployed"
    /\ outcome \in RESULTS
    /\ pinned = NoPin
    /\ pinned' = [verifierVk |-> verifierVk, call |-> call, outcome |-> outcome]
    /\ call' = NoCall
    /\ X1' = Z
    /\ outcome' = "idle"
    /\ UNCHANGED <<seeds, vk, hardcoded, verifierVk, stage>>

NextPin ==
    \/ BuildVerificationKey
    \/ deploy
    \/ SubmitPin
    \/ SubmitMalformed
    \/ Verify
    \/ Return
    \/ ReturnPinned

SpecPin == InitPin /\ [][NextPin]_vars

\* ------------------------------------------------------------------------
\* Properties.
\* ------------------------------------------------------------------------
G1Points == {G1Table[n] : n \in 0..(curve_order - 1)}

G2Points == {G2Table[n] : n \in 0..(curve_order - 1)}

RECURSIVE Sum(_)
Sum(s) == IF s = <<>> THEN 0 ELSE Sum(SubSeq(s, 1, Len(s) - 1)) + s[Len(s)]

\* The exponent of the pairing product, from the scalars of its points:
\* -A1*B2 + a1*b2 + X1*g2 + C1*d2 with d2 the negated seed.
Exponent(c, s) ==
    (0 - log1(c.A1) * log2(c.B2) + s.a * s.b + Sum(c.publicInputs) * s.g
       - log1(c.C1) * s.d) % curve_order

\* The four pairings, multiplied one by one.
Product(c, X, key) ==
    gt_mul(pairing(c.B2, neg(c.A1)),
           gt_mul(pairing(key.beta2, key.alpha1),
                  gt_mul(pairing(key.gamma2, X), pairing(key.delta2, c.C1))))

\* The operands of the four pairing terms, and the check with the sign of
\* term i flipped: the first operand of term i is negated if and only if
\* the equation leaves it alone.
Terms(c, X, key) ==
    << <<c.A1, c.B2>>, <<key.alpha1, key.beta2>>,
       <<X, key.gamma2>>, <<c.C1, key.delta2>> >>

RECURSIVE FlippedProduct(_, _, _)
FlippedProduct(t, i, n) ==
    IF n = 0 THEN GT_one
    ELSE gt_mul(FlippedProduct(t, i, n - 1),
                pairing(t[n][2],
                        IF (n = 1) # (n = i) THEN neg(t[n][1]) ELSE t[n][1]))

FlippedCheck(i) == FlippedProduct(Terms(call, X1, verifierVk), i, 4) = GT_one

\* Public inputs with every negated scalar k passed as order - k.
as_positive(xs) ==
    [i \in 1..Len(xs) |-> IF xs[i] < 0 THEN curve_order + xs[i] ELSE xs[i]]

Malformed(c) ==
    \/ c.A1 \notin G1Points
    \/ c.C1 \notin G1Points
    \/ c.B2 \notin G2Points
    \/ \E i \in 1..Len(c.publicInputs) :
          \/ c.publicInputs[i] >= curve_order
          \/ 0 - c.publicInputs[i] >= curve_order

\* C1: the fixture of constants.py folds its public inputs 2, 3, -4 to
\* 1*G1, its key is (1*G1, 1*G2, 1*G2, neg(1*G2)), and the verifier
\* deployed with that key accepts the fixture's call: the product of the
\* four pairings is the identity of G_T.
C1_FixtureAccepted ==
    /\ add(add(x1_G1, x2_G1), x3_G1) = multiply(G1, 1)
    /\ (seeds = FixtureSeeds /\ stage = "deployed") =>
          verifierVk = [alpha1 |-> a1, beta2 |-> b2, gamma2 |-> g2, delta2 |-> D2]
    /\ (seeds = FixtureSeeds /\ call = FixtureCall /\ outcome \in RESULTS) =>
          /\ outcome = "true"
          /\ X1 = multiply(G1, 1)
          /\ Product(call, X1, verifierVk) = GT_one

C1_Witness ==
    /\ seeds = FixtureSeeds
    /\ call = FixtureCall
    /\ outcome = "true"
    /\ X1 = G1

\* C2: for every proof, public inputs and key of the bounded group, verify
\* returns true if and only if the product of the four pairings, with
\* X1 the folded inputs, is the identity; every call whose scalars satisfy
\* -A1*B2 + a1*b2 + X1*g2 + C1*d2 = 0 modulo the order is accepted, and no
\* other call is.
C2_TrueIffProductIsIdentity ==
    (outcome \in {"true", "false"}) =>
        /\ (outcome = "true") <=> (Product(call, fold(call.publicInputs), verifierVk) = GT_one)
        /\ (outcome = "true") <=> (Exponent(call, seeds) = 0)

C2_Witness ==
    /\ outcome = "true"
    /\ Exponent(call, seeds) = 0
    /\ call # FixtureCall
    /\ seeds # FixtureSeeds

\* C3 as claimed: whenever verify returns true, the check with the sign of
\* any one pairing term flipped returns false.
C3_FlippedAlwaysRejects ==
    (outcome = "true") => \A i \in 1..4 : ~FlippedCheck(i)

\* C3: whenever verify returns true, the check with the sign of one
\* pairing term flipped returns false if and only if neither operand of
\* that term is the group identity.
C3_FlippedRejectsUnlessIdentity ==
    (outcome = "true") =>
        \A i \in 1..4 :
            LET t == Terms(call, X1, verifierVk)[i]
            IN  (~FlippedCheck(i)) <=> (t[1] # Z /\ t[2] # Z)

C3_Witness ==
    /\ outcome = "true"
    /\ call.A1 # Z
    /\ call.B2 # Z
    /\ ~FlippedCheck(1)

\* C4 as claimed: with a negated nonzero third input, the fold differs from
\* the fold of the same inputs with order - x3 passed as a positive scalar.
C4_ConventionsDiverge ==
    (outcome = "folded" /\ Len(call.publicInputs) = 3 /\ call.publicInputs[3] < 0) =>
        X1 # fold(as_positive(call.publicInputs))

\* C4: with a negated nonzero third input, the fold equals the fold of the
\* same inputs with order - x3 passed as a positive scalar.
C4_ConventionsAgree ==
    (outcome = "folded" /\ Len(call.publicInputs) = 3 /\ call.publicInputs[3] < 0) =>
        X1 = fold(as_positive(call.publicInputs))

C4_Witness ==
    /\ outcome = "folded"
    /\ Len(call.publicInputs) = 3
    /\ call.publicInputs[3] < 0
    /\ as_positive(call.publicInputs) # call.publicInputs
    /\ X1 # Z

\* C5: the fold of no inputs is the point at infinity, the fold of one
\* reduced scalar s is multiply(G1, s), and the fold of a sequence is the
\* sum of its inputs' points: the multiple of G1 by the sum of the inputs.
C5_FoldIsSum ==
    (outcome = "folded") =>
        /\ (call.publicInputs = <<>>) => (X1 = Z)
        /\ (Len(call.publicInputs) = 1 /\ call.publicInputs[1] >= 0) =>
              (X1 = multiply(G1, call.publicInputs[1]))
        /\ X1 = multiply(G1, Sum(call.publicInputs) % curve_order)

C5_Witness ==
    /\ outcome = "folded"
    /\ Len(call.publicInputs) = 1
    /\ call.publicInputs[1] > 1
    /\ X1 = multiply(G1, call.publicInputs[1])

C9_KeyFromSeeds ==
    (stage # "scalars") =>
        /\ vk.alpha1 = multiply(G1, seeds.a)
        /\ vk.beta2 = multiply(G2, seeds.b)
        /\ vk.gamma2 = multiply(G2, seeds.g)
        /\ vk.delta2 = neg(multiply(G2, seeds.d))
        /\ log1(vk.alpha1) = seeds.a
        /\ log2(vk.beta2) = seeds.b
        /\ log2(vk.gamma2) = seeds.g
        /\ log2(vk.delta2) = curve_order - seeds.d
        /\ add(vk.delta2, multiply(G2, seeds.d)) = Z
        /\ (seeds = FixtureSeeds) =>
              vk = [alpha1 |-> <<FQ(1), FQ(2)>>,
                    beta2  |-> <<FQ2(2, 5), FQ2(0, 6)>>,
                    gamma2 |-> <<FQ2(2, 5), FQ2(0, 6)>>,
                    delta2 |-> <<FQ2(2, 5), FQ2(0, 0 - 6)>>]

C9_Witness ==
    /\ stage = "built"
    /\ seeds.d > 1
    /\ vk.delta2 = neg(multiply(G2, seeds.d))
    /\ vk.delta2 # multiply(G2, seeds.d)

\* C10: for every scalar k with 0 < k < order, neg(multiply(G1, k)) is
\* multiply(G1, order - k); the printed x3 = order - 4 gives the point
\* x3_G1, and the fixture's X1 is 1*G1 with x3 in either form.
C10_NegateIsComplement ==
    /\ x3_G1 = multiply(G1, x3_printed)
    /\ add(add(x1_G1, x2_G1), multiply(G1, x3_printed)) = multiply(G1, 1)
    /\ (/\ outcome = "folded"
        /\ call.publicInputs # <<>>
        /\ call.publicInputs[Len(call.publicInputs)] < 0) =>
          LET k == 0 - call.publicInputs[Len(call.publicInputs)]
          IN  /\ neg(multiply(G1, k)) = multiply(G1, curve_order - k)
              /\ (call.publicInputs = FixtureCall.publicInputs) =>
                    /\ X1 = multiply(G1, 1)
                    /\ fold(<<_x1, _x2, x3_printed>>) = multiply(G1, 1)

C10_Witness ==
    /\ outcome = "folded"
    /\ call.publicInputs = FixtureCall.publicInputs
    /\ X1 = G1
    /\ input_point(call.publicInputs[3]) = multiply(G1, x3_printed)

====
